---- MODULE Spec2Model ----
(***************************************************************************)
(* State-machine model of DroneSafariGame (src/drone_safari_game.py): the  *)
(* rules engine that resolves move, turn, take_picture and reset_game on   *)
(* the fixed 12x12 layout.  Every handler is a pure operator from the      *)
(* object's fields (a record, "self") and the call's arguments to the      *)
(* fields after the call; the actions apply the handlers to the variables. *)
(***************************************************************************)
EXTENDS Integers, Sequences, FiniteSets, TLC

VARIABLES grid, drone_pos, drone_facing, animals_photographed,
          pictures_remaining, pictures_taken, total_moves, total_turns,
          photographed_locations, scared_animals, game_over, game_won,
          failure_reason, message, movement_trail, rotation_trail,
          result, last_call, budget

vars == <<grid, drone_pos, drone_facing, animals_photographed,
          pictures_remaining, pictures_taken, total_moves, total_turns,
          photographed_locations, scared_animals, game_over, game_won,
          failure_reason, message, movement_trail, rotation_trail,
          result, last_call, budget>>

(***************************************************************************)
(* Bounds of the exploration.                                              *)
(***************************************************************************)
\* calls explored from the constructed game
MaxSteps == 5
\* calls explored from a state of a replayed command script
MaxReplaySteps == 2
\* calls explored from a pose assigned by the caller
MaxUnitSteps == 2

(***************************************************************************)
(* Game configuration (module level of drone_safari_game.py).              *)
(***************************************************************************)
GRID_SIZE == 12
EMPTY == 0
TREE == 1
ZEBRA == 2
ELEPHANT == 3
ORYX == 4

\* The number of pictures a game starts with.
PICTURES == 5

\* The value None of failure_reason.
None == "None"

\* DIRECTIONS: compass name -> (row delta, column delta).
DIRECTIONS == [North |-> <<1, 0>>, East |-> <<0, 1>>,
               South |-> <<-1, 0>>, West |-> <<0, -1>>]

\* list(DIRECTIONS.keys()), indexed from 0 as in the source.
DirectionKeys == [i \in 0..3 |-> CASE i = 0 -> "North" [] i = 1 -> "East"
                                   [] i = 2 -> "South" [] i = 3 -> "West"]

\* list(DIRECTIONS.keys()).index(name)
KeyIndex(name) == CHOOSE i \in 0..3 : DirectionKeys[i] = name

MOVE_TYPES == {"forward", "left", "right", "backward"}

TURN_TYPES == {"left", "right"}

Animals == {ZEBRA, ELEPHANT, ORYX}

\* The key of animals_photographed that belongs to a grid value.
AnimalName(v) == CASE v = ZEBRA -> "zebra" [] v = ELEPHANT -> "elephant"
                   [] v = ORYX -> "oryx"

Cells == (0..(GRID_SIZE - 1)) \X (0..(GRID_SIZE - 1))

(***************************************************************************)
(* _setup_grid: the trees are written first, the animals after them, so    *)
(* the oryx replaces the tree listed at (2, 9).                            *)
(***************************************************************************)
tree_positions == {<<2, 3>>, <<4, 8>>, <<9, 5>>, <<1, 10>>, <<11, 2>>,
                   <<5, 1>>, <<8, 9>>, <<3, 6>>, <<7, 11>>, <<2, 9>>,
                   <<10, 4>>, <<5, 3>>, <<9, 8>>, <<3, 4>>, <<11, 6>>}

animal_positions == [c \in {<<3, 3>>, <<9, 9>>, <<2, 9>>} |->
                        CASE c = <<3, 3>> -> ZEBRA
                          [] c = <<9, 9>> -> ELEPHANT
                          [] c = <<2, 9>> -> ORYX]

is_valid_position(row, col) ==
    /\ 0 <= row /\ row < GRID_SIZE
    /\ 0 <= col /\ col < GRID_SIZE

setup_grid ==
    LET zeros == [c \in Cells |-> EMPTY]
        withTrees == [c \in Cells |->
                        IF c \in tree_positions /\ is_valid_position(c[1], c[2])
                        THEN TREE ELSE zeros[c]]
    IN  [c \in Cells |-> IF c \in DOMAIN animal_positions
                         THEN animal_positions[c] ELSE withTrees[c]]

\* A message or a returned string: <<text, arguments, ending>>.
Msg(text, args, ending) == <<text, args, ending>>

\* DroneSafariGame.__init__: the fields of a freshly constructed game.
\* The field result holds what the last call returned.
NewGame ==
    [grid |-> setup_grid,
     drone_pos |-> <<6, 6>>,
     drone_facing |-> "North",
     animals_photographed |-> [zebra |-> FALSE, elephant |-> FALSE, oryx |-> FALSE],
     pictures_remaining |-> PICTURES,
     pictures_taken |-> 0,
     total_moves |-> 0,
     total_turns |-> 0,
     photographed_locations |-> << >>,
     scared_animals |-> {},
     game_over |-> FALSE,
     game_won |-> FALSE,
     failure_reason |-> None,
     message |-> Msg("game_started", << >>, ""),
     movement_trail |-> << >>,
     rotation_trail |-> << >>,
     result |-> Msg("constructed", << >>, "")]

(***************************************************************************)
(* Helpers of the handlers.                                                *)
(***************************************************************************)
\* The 8 neighbours of a cell, as the two nested loops over [-1, 0, 1].
Neighbours(row, col) ==
    {<<row + dr, col + dc>> : dr \in {-1, 0, 1}, dc \in {-1, 0, 1}}
        \ {<<row, col>>}

\* The adjacency test without the four diagonal offsets.
is_adjacent_to_animal_orthogonal(g, row, col) ==
    \E n \in Neighbours(row, col) :
        /\ n[1] = row \/ n[2] = col
        /\ is_valid_position(n[1], n[2])
        /\ g[n] \in Animals

\* The adjacency test with the offsets taken from [-2 .. 2].
is_adjacent_to_animal_wide(g, row, col) ==
    \E dr \in -2..2, dc \in -2..2 :
        /\ ~(dr = 0 /\ dc = 0)
        /\ is_valid_position(row + dr, col + dc)
        /\ g[<<row + dr, col + dc>>] \in Animals

is_adjacent_to_animal(g, row, col) ==
    \E n \in Neighbours(row, col) :
        is_valid_position(n[1], n[2]) /\ g[n] \in Animals

\* _get_absolute_direction with the offsets of left and right exchanged.
get_absolute_direction_swapped(facing, move_type) ==
    LET facing_index == KeyIndex(facing)
    IN  CASE move_type = "forward"  -> facing
          [] move_type = "backward" -> DirectionKeys[(facing_index + 2) % 4]
          [] move_type = "right"    -> DirectionKeys[(facing_index - 1) % 4]
          [] move_type = "left"     -> DirectionKeys[(facing_index + 1) % 4]
          [] OTHER                  -> "NoMovement"

\* _get_absolute_direction: a compass name, or "NoMovement" for the
\* fall-through return of (0, 0).
get_absolute_direction(facing, move_type) ==
    LET facing_index == KeyIndex(facing)
    IN  CASE move_type = "forward"  -> facing
          [] move_type = "backward" -> DirectionKeys[(facing_index + 2) % 4]
          [] move_type = "right"    -> DirectionKeys[(facing_index + 1) % 4]
          [] move_type = "left"     -> DirectionKeys[(facing_index - 1) % 4]
          [] OTHER                  -> "NoMovement"

\* The isinstance(absolute_dir, str) unpacking in move.
Delta(absolute_dir) ==
    IF absolute_dir \in DOMAIN DIRECTIONS THEN DIRECTIONS[absolute_dir]
    ELSE <<0, 0>>

\* dict assignment d[key] = value
DictSet(d, key, value) ==
    [k \in (DOMAIN d) \cup {key} |-> IF k = key THEN value ELSE d[k]]

GameIsOver == Msg("game_is_over_reset_to_play_again", << >>, "")

(***************************************************************************)
(* move(move_type)                                                         *)
(***************************************************************************)
\* The cell the move leads to: the position plus the vector of the
\* absolute direction.
new_cell(self, move_type) ==
    LET absolute_dir == get_absolute_direction(self.drone_facing, move_type)
        dr == Delta(absolute_dir)[1]
        dc == Delta(absolute_dir)[2]
    IN  <<self.drone_pos[1] + dr, self.drone_pos[2] + dc>>

\* A crash that clears the cell the drone crashed into.
crash_clears_cell(self, new_pos, reason, text) ==
    [self EXCEPT !.drone_pos = new_pos,
                 !.grid = [c \in Cells |-> IF c = new_pos THEN EMPTY ELSE self.grid[c]],
                 !.game_over = TRUE,
                 !.failure_reason = reason,
                 !.message = Msg(text, << >>, ""),
                 !.result = Msg(text, << >>, "")]

\* A crash that records no failure reason.
crash_without_reason(self, new_pos, reason, text) ==
    [self EXCEPT !.drone_pos = new_pos,
                 !.game_over = TRUE,
                 !.message = Msg(text, << >>, ""),
                 !.result = Msg(text, << >>, "")]

\* A crash that leaves the drone on the cell it came from.
crash_in_place(self, new_pos, reason, text) ==
    [self EXCEPT !.game_over = TRUE,
                 !.failure_reason = reason,
                 !.message = Msg(text, << >>, ""),
                 !.result = Msg(text, << >>, "")]

\* The three crash branches: the position shows the crash location.
crash(self, new_pos, reason, text) ==
    [self EXCEPT !.drone_pos = new_pos,
                 !.game_over = TRUE,
                 !.failure_reason = reason,
                 !.message = Msg(text, << >>, ""),
                 !.result = Msg(text, << >>, "")]

\* A scare that is recorded and otherwise treated as a valid move.
scare_animals_unnoticed(self, new_pos) ==
    LET scared == {n \in Neighbours(new_pos[1], new_pos[2]) :
                      is_valid_position(n[1], n[2]) /\ self.grid[n] \in Animals}
        text == Msg("scared_an_animal_away", << >>, "")
    IN  [self EXCEPT
            !.scared_animals = self.scared_animals \cup scared,
            !.drone_pos = new_pos,
            !.message = text,
            !.result = text]

\* A scare that records the animals and leaves them on the grid.
scare_animals_kept(self, new_pos) ==
    LET scared == {n \in Neighbours(new_pos[1], new_pos[2]) :
                      is_valid_position(n[1], n[2]) /\ self.grid[n] \in Animals}
        text == Msg("scared_an_animal_away", << >>, "")
    IN  [self EXCEPT
            !.scared_animals = self.scared_animals \cup scared,
            !.drone_pos = new_pos,
            !.game_over = TRUE,
            !.failure_reason = "scared_animal",
            !.message = text,
            !.result = text]

\* The branch "too close to animal": every animal around the new cell is
\* recorded as scared and removed from the grid.
scare_animals(self, new_pos) ==
    LET scared == {n \in Neighbours(new_pos[1], new_pos[2]) :
                      is_valid_position(n[1], n[2]) /\ self.grid[n] \in Animals}
        text == Msg("scared_an_animal_away", << >>, "")
    IN  [self EXCEPT
            !.scared_animals = self.scared_animals \cup scared,
            !.grid = [c \in Cells |-> IF c \in scared THEN EMPTY ELSE self.grid[c]],
            !.drone_pos = new_pos,
            !.game_over = TRUE,
            !.failure_reason = "scared_animal",
            !.message = text,
            !.result = text]

\* A valid move that leaves the drone facing the way it travelled.
move_is_valid_faces_travel(self, move_type, new_pos) ==
    LET heading == get_absolute_direction(self.drone_facing, move_type)
        text == Msg("moved", <<move_type, new_pos, heading>>, "")
    IN  [self EXCEPT
            !.movement_trail = Append(self.movement_trail, <<self.drone_pos, new_pos>>),
            !.drone_pos = new_pos,
            !.drone_facing = heading,
            !.total_moves = self.total_moves + 1,
            !.message = text,
            !.result = text]

\* A valid move that writes the trail after the position is updated.
move_is_valid_late_trail(self, move_type, new_pos) ==
    LET text == Msg("moved", <<move_type, new_pos, self.drone_facing>>, "")
    IN  [self EXCEPT
            !.movement_trail = Append(self.movement_trail, <<new_pos, new_pos>>),
            !.drone_pos = new_pos,
            !.total_moves = self.total_moves + 1,
            !.message = text,
            !.result = text]

\* The branch "move is valid".
move_is_valid(self, move_type, new_pos) ==
    LET text == Msg("moved", <<move_type, new_pos, self.drone_facing>>, "")
    IN  [self EXCEPT
            !.movement_trail = Append(self.movement_trail, <<self.drone_pos, new_pos>>),
            !.drone_pos = new_pos,
            !.total_moves = self.total_moves + 1,
            !.message = text,
            !.result = text]

\* move without the test for a target next to the new cell.
move_without_scare_check(self, move_type) ==
    LET new_pos == new_cell(self, move_type)
        new_row == new_pos[1]
        new_col == new_pos[2]
    IN  IF self.game_over
        THEN [self EXCEPT !.result = GameIsOver]
        ELSE IF move_type \notin MOVE_TYPES
        THEN [self EXCEPT !.result = Msg("invalid_move_type", <<move_type>>, "")]
        ELSE IF ~is_valid_position(new_row, new_col)
        THEN crash(self, new_pos, "boundary_crash", "crashed_outside_grid_boundaries")
        ELSE IF self.grid[new_pos] = TREE
        THEN crash(self, new_pos, "tree_crash", "crashed_into_a_tree")
        ELSE IF self.grid[new_pos] \in Animals
        THEN crash(self, new_pos, "animal_crash", "crashed_into_an_animal")
        ELSE move_is_valid(self, move_type, new_pos)

\* move without the test of move_type.
move_unvalidated(self, move_type) ==
    LET new_pos == new_cell(self, move_type)
        new_row == new_pos[1]
        new_col == new_pos[2]
    IN  IF self.game_over
        THEN [self EXCEPT !.result = GameIsOver]
        ELSE IF ~is_valid_position(new_row, new_col)
        THEN crash(self, new_pos, "boundary_crash", "crashed_outside_grid_boundaries")
        ELSE IF self.grid[new_pos] = TREE
        THEN crash(self, new_pos, "tree_crash", "crashed_into_a_tree")
        ELSE IF self.grid[new_pos] \in Animals
        THEN crash(self, new_pos, "animal_crash", "crashed_into_an_animal")
        ELSE IF is_adjacent_to_animal(self.grid, new_row, new_col)
        THEN scare_animals(self, new_pos)
        ELSE move_is_valid(self, move_type, new_pos)

\* move with the scare check ahead of the tree and animal checks.
move_scare_first(self, move_type) ==
    LET new_pos == new_cell(self, move_type)
        new_row == new_pos[1]
        new_col == new_pos[2]
    IN  IF self.game_over
        THEN [self EXCEPT !.result = GameIsOver]
        ELSE IF move_type \notin MOVE_TYPES
        THEN [self EXCEPT !.result = Msg("invalid_move_type", <<move_type>>, "")]
        ELSE IF ~is_valid_position(new_row, new_col)
        THEN crash(self, new_pos, "boundary_crash", "crashed_outside_grid_boundaries")
        ELSE IF is_adjacent_to_animal(self.grid, new_row, new_col)
        THEN scare_animals(self, new_pos)
        ELSE IF self.grid[new_pos] = TREE
        THEN crash(self, new_pos, "tree_crash", "crashed_into_a_tree")
        ELSE IF self.grid[new_pos] \in Animals
        THEN crash(self, new_pos, "animal_crash", "crashed_into_an_animal")
        ELSE move_is_valid(self, move_type, new_pos)

move(self, move_type) ==
    LET new_pos == new_cell(self, move_type)
        new_row == new_pos[1]
        new_col == new_pos[2]
    IN  IF self.game_over
        THEN [self EXCEPT !.result = GameIsOver]
        ELSE IF move_type \notin MOVE_TYPES
        THEN [self EXCEPT !.result = Msg("invalid_move_type", <<move_type>>, "")]
        ELSE IF ~is_valid_position(new_row, new_col)
        THEN crash(self, new_pos, "boundary_crash", "crashed_outside_grid_boundaries")
        ELSE IF self.grid[new_pos] = TREE
        THEN crash(self, new_pos, "tree_crash", "crashed_into_a_tree")
        ELSE IF self.grid[new_pos] \in Animals
        THEN crash(self, new_pos, "animal_crash", "crashed_into_an_animal")
        ELSE IF is_adjacent_to_animal(self.grid, new_row, new_col)
        THEN scare_animals(self, new_pos)
        ELSE move_is_valid(self, move_type, new_pos)

(***************************************************************************)
(* turn(turn_direction)                                                    *)
(***************************************************************************)
\* turn with the two rotations exchanged.
turn_reversed(self, turn_direction) ==
    LET facing_index == KeyIndex(self.drone_facing)
        new_facing_index == IF turn_direction = "left"
                            THEN (facing_index + 1) % 4
                            ELSE (facing_index - 1) % 4
        old_facing == self.drone_facing
        new_facing == DirectionKeys[new_facing_index]
        text == Msg("turned", <<turn_direction, new_facing>>, "")
    IN  IF self.game_over
        THEN [self EXCEPT !.result = GameIsOver]
        ELSE IF turn_direction \notin TURN_TYPES
        THEN [self EXCEPT !.result = Msg("invalid_turn_direction", << >>, "")]
        ELSE [self EXCEPT
                 !.drone_facing = new_facing,
                 !.rotation_trail = Append(self.rotation_trail,
                                           <<self.drone_pos, old_facing, new_facing>>),
                 !.total_turns = self.total_turns + 1,
                 !.message = text,
                 !.result = text]

\* turn without the test of game_over.
turn_unguarded(self, turn_direction) ==
    LET facing_index == KeyIndex(self.drone_facing)
        new_facing_index == IF turn_direction = "left"
                            THEN (facing_index - 1) % 4
                            ELSE (facing_index + 1) % 4
        old_facing == self.drone_facing
        new_facing == DirectionKeys[new_facing_index]
        text == Msg("turned", <<turn_direction, new_facing>>, "")
    IN  IF turn_direction \notin TURN_TYPES
        THEN [self EXCEPT !.result = Msg("invalid_turn_direction", << >>, "")]
        ELSE [self EXCEPT
                 !.drone_facing = new_facing,
                 !.rotation_trail = Append(self.rotation_trail,
                                           <<self.drone_pos, old_facing, new_facing>>),
                 !.total_turns = self.total_turns + 1,
                 !.message = text,
                 !.result = text]

turn(self, turn_direction) ==
    LET facing_index == KeyIndex(self.drone_facing)
        new_facing_index == IF turn_direction = "left"
                            THEN (facing_index - 1) % 4
                            ELSE (facing_index + 1) % 4
        old_facing == self.drone_facing
        new_facing == DirectionKeys[new_facing_index]
        text == Msg("turned", <<turn_direction, new_facing>>, "")
    IN  IF self.game_over
        THEN [self EXCEPT !.result = GameIsOver]
        ELSE IF turn_direction \notin TURN_TYPES
        THEN [self EXCEPT !.result = Msg("invalid_turn_direction", << >>, "")]
        ELSE [self EXCEPT
                 !.drone_facing = new_facing,
                 !.rotation_trail = Append(self.rotation_trail,
                                           <<self.drone_pos, old_facing, new_facing>>),
                 !.total_turns = self.total_turns + 1,
                 !.message = text,
                 !.result = text]

(***************************************************************************)
(* take_picture()                                                          *)
(***************************************************************************)
\* A picture that is counted as taken only.
use_one_picture_uncounted(self) ==
    [self EXCEPT !.pictures_taken = self.pictures_taken + 1]

\* "Use one picture".
use_one_picture(self) ==
    [self EXCEPT !.pictures_remaining = self.pictures_remaining - 1,
                 !.pictures_taken = self.pictures_taken + 1]

\* The arguments every picture message carries.
Counters(self) == <<self.pictures_taken, self.pictures_remaining>>

\* return self.message
return_message(self) == [self EXCEPT !.result = self.message]

\* An out-of-bounds shot that never ends the game.
out_of_bounds_shot_goes_on(self, target) ==
    LET located == IF is_valid_position(target[1], target[2])
                   THEN [self EXCEPT !.photographed_locations =
                            DictSet(self.photographed_locations, target,
                                    self.pictures_taken)]
                   ELSE self
    IN  [located EXCEPT
            !.message = Msg("wasted_no_animal_in_range", Counters(self), "")]

\* The branch "target is out of bounds"; the record of the location is
\* guarded by the opposite test and is never written.
out_of_bounds_shot(self, target) ==
    LET located == IF is_valid_position(target[1], target[2])
                   THEN [self EXCEPT !.photographed_locations =
                            DictSet(self.photographed_locations, target,
                                    self.pictures_taken)]
                   ELSE self
    IN  IF self.pictures_remaining = 0
        THEN [located EXCEPT
                 !.game_over = TRUE,
                 !.message = Msg("wasted_no_animal_in_range", Counters(self),
                                 "no_pictures_left")]
        ELSE [located EXCEPT
                 !.message = Msg("wasted_no_animal_in_range", Counters(self), "")]

\* A blocked shot recorded at the cell the camera was aimed at.
blocked_shot_at_target(self, blocking) ==
    LET aimed == <<2 * blocking[1] - self.drone_pos[1],
                   2 * blocking[2] - self.drone_pos[2]>>
        located == [self EXCEPT !.photographed_locations =
                       DictSet(self.photographed_locations, aimed,
                               self.pictures_taken)]
    IN  IF self.pictures_remaining = 0
        THEN [located EXCEPT
                 !.game_over = TRUE,
                 !.failure_reason = "out_of_pictures",
                 !.message = Msg("wasted_tree_blocking_view", Counters(self),
                                 "no_pictures_left_mission_incomplete")]
        ELSE [located EXCEPT
                 !.message = Msg("wasted_tree_blocking_view", Counters(self), "")]

\* A blocked shot that gives the picture back.
blocked_shot_refunded(self, blocking) ==
    LET located == [self EXCEPT
                       !.pictures_remaining = self.pictures_remaining + 1,
                       !.pictures_taken = self.pictures_taken - 1,
                       !.photographed_locations =
                           DictSet(self.photographed_locations, blocking,
                                   self.pictures_taken)]
    IN  [located EXCEPT
            !.message = Msg("wasted_tree_blocking_view", Counters(self), "")]

\* The branch "a tree is blocking the view": the location recorded is the
\* blocking cell.
blocked_shot(self, blocking) ==
    LET located == [self EXCEPT !.photographed_locations =
                       DictSet(self.photographed_locations, blocking,
                               self.pictures_taken)]
    IN  IF self.pictures_remaining = 0
        THEN [located EXCEPT
                 !.game_over = TRUE,
                 !.failure_reason = "out_of_pictures",
                 !.message = Msg("wasted_tree_blocking_view", Counters(self),
                                 "no_pictures_left_mission_incomplete")]
        ELSE [located EXCEPT
                 !.message = Msg("wasted_tree_blocking_view", Counters(self), "")]

\* A photograph recorded under the number of the picture before it.
photograph_stale_number(self, target) ==
    LET located == IF is_valid_position(target[1], target[2])
                   THEN [self EXCEPT !.photographed_locations =
                            DictSet(self.photographed_locations, target,
                                    self.pictures_taken - 1)]
                   ELSE self
        animal_value == self.grid[target]
        name == AnimalName(animal_value)
    IN  IF animal_value \in Animals
        THEN IF self.animals_photographed[name]
             THEN [located EXCEPT !.message =
                      Msg("wasted_already_photographed", <<name>> \o Counters(self), "")]
             ELSE [located EXCEPT
                      !.animals_photographed[name] = TRUE,
                      !.message =
                      Msg("successfully_photographed", <<name>> \o Counters(self), "")]
        ELSE IF animal_value = TREE
             THEN [located EXCEPT !.message =
                      Msg("wasted_photographed_a_tree", Counters(self), "")]
             ELSE [located EXCEPT !.message =
                      Msg("wasted_no_animal_in_range", Counters(self), "")]

\* A photograph that does not look at the photographed flag.
photograph_unchecked(self, target) ==
    LET located == IF is_valid_position(target[1], target[2])
                   THEN [self EXCEPT !.photographed_locations =
                            DictSet(self.photographed_locations, target,
                                    self.pictures_taken)]
                   ELSE self
        animal_value == self.grid[target]
        name == AnimalName(animal_value)
    IN  IF animal_value \in Animals
        THEN [located EXCEPT
                 !.animals_photographed[name] = TRUE,
                 !.message =
                 Msg("successfully_photographed", <<name>> \o Counters(self), "")]
        ELSE IF animal_value = TREE
             THEN [located EXCEPT !.message =
                      Msg("wasted_photographed_a_tree", Counters(self), "")]
             ELSE [located EXCEPT !.message =
                      Msg("wasted_no_animal_in_range", Counters(self), "")]

\* The normal case: the target cell is recorded, then the branch on what
\* it holds.
photograph(self, target) ==
    LET located == IF is_valid_position(target[1], target[2])
                   THEN [self EXCEPT !.photographed_locations =
                            DictSet(self.photographed_locations, target,
                                    self.pictures_taken)]
                   ELSE self
        animal_value == self.grid[target]
        name == AnimalName(animal_value)
    IN  IF animal_value \in Animals
        THEN IF self.animals_photographed[name]
             THEN [located EXCEPT !.message =
                      Msg("wasted_already_photographed", <<name>> \o Counters(self), "")]
             ELSE [located EXCEPT
                      !.animals_photographed[name] = TRUE,
                      !.message =
                      Msg("successfully_photographed", <<name>> \o Counters(self), "")]
        ELSE IF animal_value = TREE
             THEN [located EXCEPT !.message =
                      Msg("wasted_photographed_a_tree", Counters(self), "")]
             ELSE [located EXCEPT !.message =
                      Msg("wasted_no_animal_in_range", Counters(self), "")]

\* The end checks as two separate tests: the out-of-pictures check also
\* runs after a win.
check_game_end_both(self) ==
    LET won == IF \A a \in DOMAIN self.animals_photographed : self.animals_photographed[a]
               THEN [self EXCEPT !.game_won = TRUE,
                                 !.game_over = TRUE,
                                 !.message = Msg(self.message[1], self.message[2], "won")]
               ELSE self
    IN  IF self.pictures_remaining = 0
        THEN [won EXCEPT !.game_over = TRUE,
                         !.failure_reason = "out_of_pictures"]
        ELSE won

\* The end checks with any() in the place of all().
check_game_end_any(self) ==
    IF \E a \in DOMAIN self.animals_photographed : self.animals_photographed[a]
    THEN [self EXCEPT !.game_won = TRUE,
                      !.game_over = TRUE,
                      !.message = Msg(self.message[1], self.message[2], "won")]
    ELSE IF self.pictures_remaining = 0
    THEN [self EXCEPT !.game_over = TRUE,
                      !.failure_reason = "out_of_pictures",
                      !.message = Msg(self.message[1], self.message[2],
                                      "no_pictures_left_mission_incomplete")]
    ELSE self

\* The end checks with the out-of-pictures check ahead of the win check.
check_game_end_loss_first(self) ==
    IF self.pictures_remaining = 0
    THEN [self EXCEPT !.game_over = TRUE,
                      !.failure_reason = "out_of_pictures",
                      !.message = Msg(self.message[1], self.message[2],
                                      "no_pictures_left_mission_incomplete")]
    ELSE IF \A a \in DOMAIN self.animals_photographed : self.animals_photographed[a]
    THEN [self EXCEPT !.game_won = TRUE,
                      !.game_over = TRUE,
                      !.message = Msg(self.message[1], self.message[2], "won")]
    ELSE self

\* "Check if all animals are photographed", else "no pictures left but
\* game not won".
check_game_end(self) ==
    IF \A a \in DOMAIN self.animals_photographed : self.animals_photographed[a]
    THEN [self EXCEPT !.game_won = TRUE,
                      !.game_over = TRUE,
                      !.message = Msg(self.message[1], self.message[2], "won")]
    ELSE IF self.pictures_remaining = 0
    THEN [self EXCEPT !.game_over = TRUE,
                      !.failure_reason = "out_of_pictures",
                      !.message = Msg(self.message[1], self.message[2],
                                      "no_pictures_left_mission_incomplete")]
    ELSE self

\* take_picture with the tree check ahead of the bounds check.
take_picture_tree_first(self) ==
    LET used == use_one_picture(self)
        dr == DIRECTIONS[self.drone_facing][1]
        dc == DIRECTIONS[self.drone_facing][2]
        target_row == self.drone_pos[1] + 2 * dr
        target_col == self.drone_pos[2] + 2 * dc
        blocking_row == self.drone_pos[1] + dr
        blocking_col == self.drone_pos[2] + dc
    IN  IF self.game_over
        THEN [self EXCEPT !.result = GameIsOver]
        ELSE IF self.pictures_remaining <= 0
        THEN return_message([self EXCEPT
                                !.message = Msg("no_pictures_remaining", << >>, ""),
                                !.game_over = TRUE])
        ELSE IF is_valid_position(blocking_row, blocking_col)
                /\ self.grid[<<blocking_row, blocking_col>>] = TREE
        THEN return_message(blocked_shot(used, <<blocking_row, blocking_col>>))
        ELSE IF ~is_valid_position(target_row, target_col)
        THEN return_message(out_of_bounds_shot(used, <<target_row, target_col>>))
        ELSE return_message(
                 check_game_end(photograph(used, <<target_row, target_col>>)))

take_picture(self) ==
    LET used == use_one_picture(self)
        dr == DIRECTIONS[self.drone_facing][1]
        dc == DIRECTIONS[self.drone_facing][2]
        target_row == self.drone_pos[1] + 2 * dr
        target_col == self.drone_pos[2] + 2 * dc
        blocking_row == self.drone_pos[1] + dr
        blocking_col == self.drone_pos[2] + dc
    IN  IF self.game_over
        THEN [self EXCEPT !.result = GameIsOver]
        ELSE IF self.pictures_remaining <= 0
        THEN return_message([self EXCEPT
                                !.message = Msg("no_pictures_remaining", << >>, ""),
                                !.game_over = TRUE])
        ELSE IF ~is_valid_position(target_row, target_col)
        THEN return_message(out_of_bounds_shot(used, <<target_row, target_col>>))
        ELSE IF is_valid_position(blocking_row, blocking_col)
                /\ self.grid[<<blocking_row, blocking_col>>] = TREE
        THEN return_message(blocked_shot(used, <<blocking_row, blocking_col>>))
        ELSE return_message(
                 check_game_end(photograph(used, <<target_row, target_col>>)))

(***************************************************************************)
(* reset_game(): runs __init__ again.                                      *)
(***************************************************************************)
\* A reset that assigns the fields anew and keeps the grid it has.
reset_game_keeps_grid(self) ==
    [NewGame EXCEPT !.result = Msg("game_reset", << >>, ""),
                    !.grid = self.grid]

reset_game(self) ==
    [NewGame EXCEPT !.result = Msg("game_reset", << >>, "")]

(***************************************************************************)
(* get_status(): the keys of the returned dictionary.                      *)
(***************************************************************************)
get_status(self) ==
    [position |-> self.drone_pos,
     facing |-> self.drone_facing,
     animals_photographed |-> self.animals_photographed,
     pictures_remaining |-> self.pictures_remaining,
     pictures_taken |-> self.pictures_taken,
     total_moves |-> self.total_moves,
     total_turns |-> self.total_turns,
     photographed_locations |-> self.photographed_locations,
     game_over |-> self.game_over,
     game_won |-> self.game_won,
     message |-> self.message]

(***************************************************************************)
(* _get_sensor_summary(): the text a handler called with sensors=True      *)
(* appends to what it returns.  A detection is <<what, where>>: what is    *)
(* the list of names the text joins with " and " (one name for an object,  *)
(* one or two for a boundary), where is the parts of format_direction,     *)
(* each <<distance, compass word>>.                                        *)
(***************************************************************************)
abs(x) == IF x < 0 THEN -x ELSE x

object_names == [v \in {TREE, ZEBRA, ELEPHANT, ORYX} |->
                    CASE v = TREE -> "tree" [] v = ZEBRA -> "zebra"
                      [] v = ELEPHANT -> "elephant" [] v = ORYX -> "oryx"]

\* The parts list; the empty list stands for "at current position".
format_direction(dr, dc) ==
    (IF dr < 0 THEN <<<<abs(dr), "North">>>>
     ELSE IF dr > 0 THEN <<<<dr, "South">>>>
     ELSE << >>)
    \o (IF dc > 0 THEN <<<<dc, "East">>>>
        ELSE IF dc < 0 THEN <<<<abs(dc), "West">>>>
        ELSE << >>)

\* The offsets the three nested loops visit, in their order, without the
\* ones the continue skips.
scan_offsets ==
    LET square(distance) ==
            [i \in 1..((2 * distance + 1) * (2 * distance + 1)) |->
                <<((i - 1) \div (2 * distance + 1)) - distance,
                  ((i - 1) % (2 * distance + 1)) - distance>>]
        kept(distance, o) ==
            ~((o[1] = 0 /\ o[2] = 0)
                \/ (abs(o[1]) < distance /\ abs(o[2]) < distance))
        ring(distance) ==
            SelectSeq(square(distance), LAMBDA o : kept(distance, o))
    IN  ring(1) \o ring(2)

\* What one scanned cell adds to detections.
scan_cell(self, dr, dc) ==
    LET scan_row == self.drone_pos[1] + dr
        scan_col == self.drone_pos[2] + dc
        boundary_desc ==
            (IF scan_row < 0 THEN <<"north boundary">>
             ELSE IF scan_row >= GRID_SIZE THEN <<"south boundary">>
             ELSE << >>)
            \o (IF scan_col < 0 THEN <<"west boundary">>
                ELSE IF scan_col >= GRID_SIZE THEN <<"east boundary">>
                ELSE << >>)
        direction_str == format_direction(dr, dc)
    IN  IF ~is_valid_position(scan_row, scan_col)
        THEN IF boundary_desc # << >>
             THEN <<<<boundary_desc, direction_str>>>>
             ELSE << >>
        ELSE (IF self.grid[<<scan_row, scan_col>>] \in DOMAIN object_names
              THEN <<<<<<object_names[self.grid[<<scan_row, scan_col>>]]>>,
                       direction_str>>>>
              ELSE << >>)
             \o (IF <<scan_row, scan_col>> \in self.scared_animals
                 THEN <<<<<<"scared animal location">>, direction_str>>>>
                 ELSE << >>)

\* detections after the offsets from the i-th on were scanned.
RECURSIVE scan_from(_, _)
scan_from(self, i) ==
    IF i > Len(scan_offsets) THEN << >>
    ELSE scan_cell(self, scan_offsets[i][1], scan_offsets[i][2])
             \o scan_from(self, i + 1)

get_sensor_summary(self) == scan_from(self, 1)

(***************************************************************************)
(* The game object as the variables hold it, and the assignment of the     *)
(* fields a handler returns.                                               *)
(***************************************************************************)
Self ==
    [grid |-> grid,
     drone_pos |-> drone_pos,
     drone_facing |-> drone_facing,
     animals_photographed |-> animals_photographed,
     pictures_remaining |-> pictures_remaining,
     pictures_taken |-> pictures_taken,
     total_moves |-> total_moves,
     total_turns |-> total_turns,
     photographed_locations |-> photographed_locations,
     scared_animals |-> scared_animals,
     game_over |-> game_over,
     game_won |-> game_won,
     failure_reason |-> failure_reason,
     message |-> message,
     movement_trail |-> movement_trail,
     rotation_trail |-> rotation_trail,
     result |-> result]

Holds(s) ==
    /\ grid = s.grid
    /\ drone_pos = s.drone_pos
    /\ drone_facing = s.drone_facing
    /\ animals_photographed = s.animals_photographed
    /\ pictures_remaining = s.pictures_remaining
    /\ pictures_taken = s.pictures_taken
    /\ total_moves = s.total_moves
    /\ total_turns = s.total_turns
    /\ photographed_locations = s.photographed_locations
    /\ scared_animals = s.scared_animals
    /\ game_over = s.game_over
    /\ game_won = s.game_won
    /\ failure_reason = s.failure_reason
    /\ message = s.message
    /\ movement_trail = s.movement_trail
    /\ rotation_trail = s.rotation_trail
    /\ result = s.result

Becomes(s) ==
    /\ grid' = s.grid
    /\ drone_pos' = s.drone_pos
    /\ drone_facing' = s.drone_facing
    /\ animals_photographed' = s.animals_photographed
    /\ pictures_remaining' = s.pictures_remaining
    /\ pictures_taken' = s.pictures_taken
    /\ total_moves' = s.total_moves
    /\ total_turns' = s.total_turns
    /\ photographed_locations' = s.photographed_locations
    /\ scared_animals' = s.scared_animals
    /\ game_over' = s.game_over
    /\ game_won' = s.game_won
    /\ failure_reason' = s.failure_reason
    /\ message' = s.message
    /\ movement_trail' = s.movement_trail
    /\ rotation_trail' = s.rotation_trail
    /\ result' = s.result

(***************************************************************************)
(* The arguments a caller passes: the accepted tokens and, for each        *)
(* handler, one token it rejects ("f" is the agent's short form).          *)
(***************************************************************************)
MoveArgs == MOVE_TYPES \cup {"f"}

TurnArgs == TURN_TYPES \cup {"forward"}

(***************************************************************************)
(* The game from its construction.                                         *)
(***************************************************************************)
Init ==
    /\ Holds(NewGame)
    /\ last_call = <<"__init__">>
    /\ budget = MaxSteps

Move(move_type) ==
    /\ budget > 0
    /\ Becomes(move(Self, move_type))
    /\ last_call' = <<"move", move_type>>
    /\ budget' = budget - 1

Turn(turn_direction) ==
    /\ budget > 0
    /\ Becomes(turn(Self, turn_direction))
    /\ last_call' = <<"turn", turn_direction>>
    /\ budget' = budget - 1

TakePicture ==
    /\ budget > 0
    /\ Becomes(take_picture(Self))
    /\ last_call' = <<"take_picture">>
    /\ budget' = budget - 1

ResetGame ==
    /\ budget > 0
    /\ Becomes(reset_game(Self))
    /\ last_call' = <<"reset_game">>
    /\ budget' = budget - 1

Next ==
    \/ \E move_type \in MoveArgs : Move(move_type)
    \/ \E turn_direction \in TurnArgs : Turn(turn_direction)
    \/ TakePicture
    \/ ResetGame

Spec == Init /\ [][Next]_vars

(***************************************************************************)
(* A session of commands played on the constructed game.  It wastes two    *)
(* pictures at the start, photographs the elephant from (9, 11) and the    *)
(* oryx from (4, 9), passes a cell with a tree straight ahead, a cell two  *)
(* steps from the border and a cell with a tree two ahead, and takes its   *)
(* last picture of the zebra from (3, 1).  A call is <<handler, argument>>.*)
(***************************************************************************)
Keys == [p |-> <<"take_picture">>,
         f |-> <<"move", "forward">>, b |-> <<"move", "backward">>,
         l |-> <<"move", "left">>, r |-> <<"move", "right">>,
         L |-> <<"turn", "left">>, R |-> <<"turn", "right">>]

Session ==
    <<"p", "p", "f", "f", "f", "f", "r", "f", "r", "r", "r", "r", "b", "b", "L", "p",
      "r", "r", "f", "f", "f", "f", "l", "l", "l", "l", "b", "b", "l", "l", "l", "L",
      "p", "b", "r", "r", "f", "r", "l", "f", "f", "f", "r", "b", "l", "b", "b", "b",
      "r", "f", "r", "f", "f", "f", "r", "r", "r", "r", "b", "b", "L", "p">>

\* One call on the game object.
Call(self, c) ==
    CASE c[1] = "move" -> move(self, c[2])
      [] c[1] = "turn" -> turn(self, c[2])
      [] c[1] = "take_picture" -> take_picture(self)
      [] c[1] = "reset_game" -> reset_game(self)

\* The game after calls i..k of the session, played on self.  A session
\* stops at the call that ends the game.
RECURSIVE PlayFrom(_, _, _)
PlayFrom(self, i, k) ==
    IF i > k \/ self.game_over THEN self
    ELSE PlayFrom(Call(self, Keys[Session[i]]), i + 1, k)

\* The game after the first k calls of the session.
Played(k) == PlayFrom(NewGame, 1, k)

InitReplay ==
    \E k \in 0..Len(Session) :
        /\ Holds(Played(k))
        /\ last_call = IF k = 0 THEN <<"__init__">> ELSE Keys[Session[k]]
        /\ budget = MaxReplaySteps

SpecReplay == InitReplay /\ [][Next]_vars

(***************************************************************************)
(* The constructed game with the pose assigned by the caller (the fields   *)
(* are public): the drone on any empty cell of the layout, facing any way. *)
(***************************************************************************)
InitUnit ==
    \E pos \in Cells, facing \in DOMAIN DIRECTIONS :
        /\ setup_grid[pos] = EMPTY
        /\ Holds([NewGame EXCEPT !.drone_pos = pos, !.drone_facing = facing])
        /\ last_call = <<"__init__">>
        /\ budget = MaxUnitSteps

SpecUnit == InitUnit /\ [][Next]_vars

(***************************************************************************)
(* Vocabulary of the properties, stated from the rules and not from the    *)
(* handlers.                                                               *)
(***************************************************************************)
\* The rotation cycle, indexed 0..3.
Compass == [i \in 0..3 |-> <<"North", "East", "South", "West">>[i + 1]]

CompassIndex(facing) == CHOOSE i \in 0..3 : Compass[i] = facing

\* The rotation table of the relative directions.
Rotation == [forward |-> 0, right |-> 1, backward |-> 2, left |-> 3]

\* The absolute direction of a relative move under a facing.
Resolved(facing, move_type) ==
    Compass[(CompassIndex(facing) + Rotation[move_type]) % 4]

\* The candidate cell of a move from the current pose.
Candidate(move_type) ==
    <<drone_pos[1] + DIRECTIONS[Resolved(drone_facing, move_type)][1],
      drone_pos[2] + DIRECTIONS[Resolved(drone_facing, move_type)][2]>>

InGrid(cell) == cell \in Cells

\* The cell k steps ahead of the drone.
Ahead(k) == <<drone_pos[1] + k * DIRECTIONS[drone_facing][1],
              drone_pos[2] + k * DIRECTIONS[drone_facing][2]>>

Abs(x) == IF x < 0 THEN -x ELSE x

\* The cells of the grid that touch a cell, diagonals included.
Around(cell) ==
    {n \in Cells : n # cell /\ Abs(n[1] - cell[1]) <= 1 /\ Abs(n[2] - cell[2]) <= 1}

\* The targets standing around a cell.
TargetsAround(cell) == {n \in Around(cell) : grid[n] \in Animals}

AllPhotographed ==
    /\ animals_photographed["zebra"]
    /\ animals_photographed["elephant"]
    /\ animals_photographed["oryx"]

\* The step is a call of move with this argument on a game that is not over.
ActiveMove(move_type) == ~game_over /\ last_call' = <<"move", move_type>>

\* The step is a call of take_picture on a game that is not over.
ActivePicture == ~game_over /\ last_call' = <<"take_picture">>

(***************************************************************************)
(* C1: once game_over is true, a call of move, turn or take_picture with   *)
(* any argument leaves the position, the facing, both picture counters,    *)
(* the photographed map, photographed_locations, the scared set and the    *)
(* grid as they are; only reset_game changes them.                         *)
(***************************************************************************)
C1_FrozenAfterGameOver ==
    [][(game_over /\ last_call'[1] \in {"move", "turn", "take_picture"})
         => UNCHANGED <<drone_pos, drone_facing, pictures_remaining,
                        pictures_taken, animals_photographed,
                        photographed_locations, scared_animals, grid>>]_vars

\* A turn was called on a game that was over, and answered with the notice.
C1_Witness ==
    /\ game_over
    /\ last_call[1] = "turn"
    /\ last_call[2] \in TURN_TYPES
    /\ result = GameIsOver

(***************************************************************************)
(* C2: the take_picture call that brings pictures_remaining to 0 without   *)
(* all three targets photographed sets game_over and failure_reason =      *)
(* out_of_pictures, whatever branch the shot took.                         *)
(***************************************************************************)
C2_LastPictureIsOutOfPictures ==
    [][(ActivePicture /\ pictures_remaining = 1 /\ pictures_remaining' = 0
          /\ ~AllPhotographed')
         => (game_over' /\ failure_reason' = "out_of_pictures")]_vars

(***************************************************************************)
(* C3: when the call that uses the last picture photographs the one target *)
(* that was not yet photographed (it stands two cells ahead, no tree in    *)
(* between), the game is won and over and failure_reason stays unset.      *)
(***************************************************************************)
C3_WinOverridesOutOfPictures ==
    [][(/\ ActivePicture
        /\ pictures_remaining = 1
        /\ InGrid(Ahead(2))
        /\ grid[Ahead(1)] # TREE
        /\ grid[Ahead(2)] \in Animals
        /\ ~animals_photographed[AnimalName(grid[Ahead(2)])]
        /\ \A a \in Animals \ {grid[Ahead(2)]} : animals_photographed[AnimalName(a)])
         => (game_won' /\ game_over' /\ failure_reason' = None)]_vars

\* The last picture was the third photograph.
C3_Witness ==
    /\ budget < MaxReplaySteps
    /\ last_call = <<"take_picture">>
    /\ pictures_remaining = 0
    /\ message[1] = "successfully_photographed"
    /\ AllPhotographed
    /\ game_won

(***************************************************************************)
(* C4: in every reachable state pictures_remaining + pictures_taken is the *)
(* picture budget of 5.                                                    *)
(***************************************************************************)
C4_PictureBudget == pictures_remaining + pictures_taken = 5

\* Every picture of the budget has been taken.
C4_Witness == pictures_taken = 5 /\ pictures_remaining = 0

(***************************************************************************)
(* C5: on a game that is not over, take_picture lowers pictures_remaining  *)
(* by exactly 1 and raises pictures_taken by exactly 1 whatever the shot's *)
(* outcome, and changes neither the position nor the facing.               *)
(***************************************************************************)
C5_PictureAlwaysConsumed ==
    [][ActivePicture
         => (/\ pictures_remaining' = pictures_remaining - 1
             /\ pictures_taken' = pictures_taken + 1
             /\ UNCHANGED <<drone_pos, drone_facing>>)]_vars

\* A picture was wasted on a tree that blocks the view.
C5_Witness ==
    /\ last_call = <<"take_picture">>
    /\ message[1] = "wasted_tree_blocking_view"
    /\ pictures_taken > 0

(***************************************************************************)
(* C6: a move whose candidate cell lies outside the grid sets game_over    *)
(* and failure_reason = boundary_crash, stores the candidate as position,  *)
(* and changes neither the grid, the scared set, the move counter nor the  *)
(* movement trail.                                                         *)
(***************************************************************************)
C6_BoundaryCrash ==
    [][\A move_type \in MOVE_TYPES :
         (ActiveMove(move_type) /\ ~InGrid(Candidate(move_type)))
           => (/\ game_over'
               /\ failure_reason' = "boundary_crash"
               /\ drone_pos' = Candidate(move_type)
               /\ UNCHANGED <<grid, scared_animals, total_moves,
                              movement_trail>>)]_vars

\* The drone lies one step outside the grid after a boundary crash.
C6_Witness ==
    /\ last_call[1] = "move"
    /\ failure_reason = "boundary_crash"
    /\ ~InGrid(drone_pos)
    /\ game_over

(***************************************************************************)
(* C7: a move onto a tree inside the grid gives tree_crash and a move onto *)
(* a target gives animal_crash; both put the drone on the candidate cell   *)
(* and end the game, and neither removes a target from the grid or adds to *)
(* the scared set, also when targets stand around the candidate cell.      *)
(***************************************************************************)
C7_CrashBeforeScare ==
    [][\A move_type \in MOVE_TYPES :
         (ActiveMove(move_type) /\ InGrid(Candidate(move_type)))
           => (/\ (grid[Candidate(move_type)] = TREE)
                     => (/\ failure_reason' = "tree_crash"
                         /\ drone_pos' = Candidate(move_type)
                         /\ game_over'
                         /\ UNCHANGED <<grid, scared_animals>>)
               /\ (grid[Candidate(move_type)] \in Animals)
                     => (/\ failure_reason' = "animal_crash"
                         /\ drone_pos' = Candidate(move_type)
                         /\ game_over'
                         /\ UNCHANGED <<grid, scared_animals>>))]_vars

\* The drone has flown onto a target, which is still on the grid.
C7_Witness ==
    /\ last_call[1] = "move"
    /\ failure_reason = "animal_crash"
    /\ InGrid(drone_pos)
    /\ grid[drone_pos] \in Animals
    /\ scared_animals = {}

(***************************************************************************)
(* C8: a move whose candidate cell is inside the grid, neither a tree nor  *)
(* a target, with at least one target around it, puts the drone on the     *)
(* candidate, sets game_over and failure_reason = scared_animal, empties   *)
(* the cell of every target around the candidate and adds it to the scared *)
(* set; every other cell of the grid keeps its content.                    *)
(***************************************************************************)
C8_Scare ==
    [][\A move_type \in MOVE_TYPES :
         (/\ ActiveMove(move_type)
          /\ InGrid(Candidate(move_type))
          /\ grid[Candidate(move_type)] = EMPTY
          /\ TargetsAround(Candidate(move_type)) # {})
           => (/\ drone_pos' = Candidate(move_type)
               /\ game_over'
               /\ failure_reason' = "scared_animal"
               /\ scared_animals' =
                     scared_animals \cup TargetsAround(Candidate(move_type))
               /\ \A c \in Cells :
                     grid'[c] = IF c \in TargetsAround(Candidate(move_type))
                                THEN EMPTY ELSE grid[c])]_vars

\* A target was scared away: its cell is empty and in the scared set, the
\* two other targets are on the grid.
C8_Witness ==
    /\ last_call[1] = "move"
    /\ failure_reason = "scared_animal"
    /\ Cardinality(scared_animals) = 1
    /\ \A c \in scared_animals : grid[c] = EMPTY /\ c \in Around(drone_pos)
    /\ Cardinality({c \in Cells : grid[c] \in Animals}) = 2

(***************************************************************************)
(* C9: a move that meets none of the four failure conditions sets the      *)
(* position to the candidate cell, adds 1 to total_moves, appends the one  *)
(* record (previous position, new position) to the movement trail, and     *)
(* leaves the facing, game_over, the grid, the picture counters and the    *)
(* photographed map as they are.                                           *)
(***************************************************************************)
C9_SuccessfulMove ==
    [][\A move_type \in MOVE_TYPES :
         (/\ ActiveMove(move_type)
          /\ InGrid(Candidate(move_type))
          /\ grid[Candidate(move_type)] = EMPTY
          /\ TargetsAround(Candidate(move_type)) = {})
           => (/\ drone_pos' = Candidate(move_type)
               /\ total_moves' = total_moves + 1
               /\ movement_trail' =
                     movement_trail \o << <<drone_pos, Candidate(move_type)>> >>
               /\ UNCHANGED <<drone_facing, game_over, grid,
                              pictures_remaining, pictures_taken,
                              animals_photographed>>)]_vars

\* Two moves have succeeded and the trail holds their two records.
C9_Witness ==
    /\ last_call[1] = "move"
    /\ ~game_over
    /\ total_moves = 2
    /\ Len(movement_trail) = 2
    /\ movement_trail[2][1] = movement_trail[1][2]
    /\ movement_trail[2][2] = drone_pos

(***************************************************************************)
(* C10: for every facing of the cycle North, East, South, West (0..3) the  *)
(* absolute direction move uses is forward = f, backward = f + 2, right =  *)
(* f + 1, left = f + 3 (mod 4), and the candidate cell is the position     *)
(* plus the unit vector of that direction.                                 *)
(***************************************************************************)
C10_RotationTable ==
    [][\A move_type \in MOVE_TYPES :
         /\ get_absolute_direction(drone_facing, move_type)
               = Resolved(drone_facing, move_type)
         /\ ActiveMove(move_type) => drone_pos' = Candidate(move_type)]_vars

\* The drone faces South and has moved left, that is to the East.
C10_Witness ==
    /\ last_call = <<"move", "left">>
    /\ drone_facing = "South"
    /\ total_moves = 1
    /\ drone_pos = <<6, 7>>

\* The step is a call of turn with this argument on a game that is not over.
ActiveTurn(turn_direction) == ~game_over /\ last_call' = <<"turn", turn_direction>>

\* What a dictionary holds after the entry key -> value is written.
Written(d, key, value) ==
    [k \in (DOMAIN d) \cup {key} |-> IF k = key THEN value ELSE d[k]]

(***************************************************************************)
(* C11: on a game that is not over, turn('right') advances the facing one  *)
(* step along North, East, South, West, North and turn('left') one step    *)
(* the other way; the turn adds 1 to total_turns, appends the one record   *)
(* (position, old facing, new facing) to the rotation trail, keeps the     *)
(* game going and leaves position, grid and picture counters as they are.  *)
(***************************************************************************)
C11_Turn ==
    [][\A turn_direction \in TURN_TYPES :
         ActiveTurn(turn_direction)
           => (/\ drone_facing' =
                     Compass[(CompassIndex(drone_facing)
                              + (IF turn_direction = "right" THEN 1 ELSE 3)) % 4]
               /\ total_turns' = total_turns + 1
               /\ rotation_trail' =
                     rotation_trail \o << <<drone_pos, drone_facing, drone_facing'>> >>
               /\ ~game_over'
               /\ UNCHANGED <<drone_pos, grid, pictures_remaining,
                              pictures_taken>>)]_vars

\* The drone has turned right from North to East and left from East to
\* North again.
C11_Witness ==
    /\ last_call = <<"turn", "left">>
    /\ total_turns = 2
    /\ rotation_trail = << <<drone_pos, "North", "East">>,
                           <<drone_pos, "East", "North">> >>
    /\ drone_facing = "North"

(***************************************************************************)
(* C12: when the cell straight ahead is a tree and the cell two ahead is   *)
(* inside the grid, take_picture wastes the shot as blocked: no target's   *)
(* photographed flag changes, also when an unphotographed target stands    *)
(* two ahead, and photographed_locations gets the new picture number at    *)
(* the tree's cell and nothing at the target cell.                         *)
(***************************************************************************)
C12_TreeBlocksView ==
    [][(/\ ActivePicture
        /\ InGrid(Ahead(2))
        /\ grid[Ahead(1)] = TREE)
         => (/\ message'[1] = "wasted_tree_blocking_view"
             /\ animals_photographed' = animals_photographed
             /\ ~game_won'
             /\ photographed_locations' =
                   Written(photographed_locations, Ahead(1), pictures_taken + 1))]_vars

\* A picture was blocked by a tree with an unphotographed target right
\* behind it, and the target's cell got no record.
C12_Witness ==
    /\ last_call = <<"take_picture">>
    /\ message[1] = "wasted_tree_blocking_view"
    /\ grid[Ahead(1)] = TREE
    /\ grid[Ahead(2)] \in Animals
    /\ ~animals_photographed[AnimalName(grid[Ahead(2)])]
    /\ photographed_locations[Ahead(1)] = pictures_taken
    /\ Ahead(2) \notin DOMAIN photographed_locations

\* A target stands two cells ahead of the drone with no tree in between.
TargetInView ==
    /\ InGrid(Ahead(2))
    /\ grid[Ahead(1)] # TREE
    /\ grid[Ahead(2)] \in Animals

\* The name of the target in view.
InView == AnimalName(grid[Ahead(2)])

(***************************************************************************)
(* C13: on a game that is not over, when the cell two ahead is inside the  *)
(* grid and holds a target not yet photographed and the cell one ahead is  *)
(* not a tree, take_picture sets that target's flag, leaves the two other  *)
(* flags as they are and records photographed_locations[target cell] = the *)
(* new value of pictures_taken.                                            *)
(***************************************************************************)
C13_Photograph ==
    [][(ActivePicture /\ TargetInView /\ ~animals_photographed[InView])
         => (/\ animals_photographed' =
                   [animals_photographed EXCEPT ![InView] = TRUE]
             /\ pictures_taken' = pictures_taken + 1
             /\ photographed_locations' =
                   Written(photographed_locations, Ahead(2), pictures_taken'))]_vars

\* The target in view has just been photographed while another one is
\* still missing.
C13_Witness ==
    /\ budget < MaxReplaySteps
    /\ last_call = <<"take_picture">>
    /\ message[1] = "successfully_photographed"
    /\ TargetInView
    /\ message[2][1] = InView
    /\ animals_photographed[InView]
    /\ ~AllPhotographed
    /\ photographed_locations[Ahead(2)] = pictures_taken

(***************************************************************************)
(* C14: a picture of a target whose flag is already true is wasted: it     *)
(* reports the already-photographed outcome, leaves the three flags and    *)
(* game_won as they are, and still uses one picture and records the        *)
(* target's cell in photographed_locations.                                *)
(***************************************************************************)
C14_PhotographedAgain ==
    [][(ActivePicture /\ TargetInView /\ animals_photographed[InView])
         => (/\ message'[1] = "wasted_already_photographed"
             /\ UNCHANGED <<animals_photographed, game_won>>
             /\ pictures_remaining' = pictures_remaining - 1
             /\ pictures_taken' = pictures_taken + 1
             /\ photographed_locations' =
                   Written(photographed_locations, Ahead(2), pictures_taken'))]_vars

\* The same target was photographed a second time, in vain.
C14_Witness ==
    /\ last_call = <<"take_picture">>
    /\ message[1] = "wasted_already_photographed"
    /\ TargetInView
    /\ animals_photographed[InView]
    /\ ~game_won
    /\ photographed_locations[Ahead(2)] = pictures_taken

(***************************************************************************)
(* C15: in every reachable state game_won is true exactly when zebra,      *)
(* elephant and oryx are all marked photographed, and game_won implies     *)
(* game_over.                                                              *)
(***************************************************************************)
C15_WonIffAllPhotographed ==
    /\ game_won <=> AllPhotographed
    /\ game_won => game_over

\* A won game: three targets photographed at three recorded cells.
C15_Witness ==
    /\ budget < MaxReplaySteps
    /\ game_won
    /\ game_over
    /\ AllPhotographed
    /\ \A c \in DOMAIN animal_positions : c \in DOMAIN photographed_locations

(***************************************************************************)
(* C16: when the cell two ahead lies outside the grid, take_picture wastes *)
(* the shot with the no-animal-in-range outcome and adds no entry to       *)
(* photographed_locations, also when the cell straight ahead is a tree.    *)
(***************************************************************************)
C16_OutOfRangeShot ==
    [][(ActivePicture /\ ~InGrid(Ahead(2)))
         => (/\ message'[1] = "wasted_no_animal_in_range"
             /\ UNCHANGED <<photographed_locations, animals_photographed>>)]_vars

\* A picture was taken towards the border with a tree straight ahead.
C16_Witness ==
    /\ last_call = <<"take_picture">>
    /\ message[1] = "wasted_no_animal_in_range"
    /\ ~InGrid(Ahead(2))
    /\ InGrid(Ahead(1))
    /\ grid[Ahead(1)] = TREE
    /\ pictures_taken > 0

\* The fixed layout: 14 trees and the three targets on an empty grid.
Layout ==
    [c \in Cells |-> CASE c = <<3, 3>> -> ZEBRA
                       [] c = <<9, 9>> -> ELEPHANT
                       [] c = <<2, 9>> -> ORYX
                       [] c \in tree_positions \ {<<2, 9>>} -> TREE
                       [] OTHER -> EMPTY]

\* Every field has the value the constructor gives it.
Fresh ==
    /\ grid = Layout
    /\ drone_pos = <<6, 6>>
    /\ drone_facing = "North"
    /\ pictures_remaining = 5
    /\ pictures_taken = 0
    /\ animals_photographed = [zebra |-> FALSE, elephant |-> FALSE, oryx |-> FALSE]
    /\ DOMAIN photographed_locations = {}
    /\ scared_animals = {}
    /\ total_moves = 0
    /\ total_turns = 0
    /\ movement_trail = << >>
    /\ rotation_trail = << >>
    /\ ~game_over
    /\ ~game_won
    /\ failure_reason = None
    /\ message = Msg("game_started", << >>, "")

\* The fields of the game object, without what the last call returned.
fields == <<grid, drone_pos, drone_facing, animals_photographed,
            pictures_remaining, pictures_taken, total_moves, total_turns,
            photographed_locations, scared_animals, game_over, game_won,
            failure_reason, message, movement_trail, rotation_trail>>

(***************************************************************************)
(* C17: after any sequence of commands, scares and boundary crashes        *)
(* included, reset_game returns every field to the fixed initial state,    *)
(* and a second reset_game right after it changes nothing.                 *)
(***************************************************************************)
C17_Reset ==
    [][(last_call' = <<"reset_game">>)
         => (/\ Fresh'
             /\ (last_call = <<"reset_game">>) => UNCHANGED <<fields, result>>)]_vars

\* The game was reset by the second call explored and is fresh.
C17_Witness ==
    /\ last_call = <<"reset_game">>
    /\ budget = MaxReplaySteps - 2
    /\ result = Msg("game_reset", << >>, "")
    /\ Fresh

(***************************************************************************)
(* C18: a move with a token outside forward, backward, left, right and a   *)
(* turn with a token outside left, right are rejected and leave every      *)
(* field of the game as it is.                                             *)
(***************************************************************************)
C18_RejectedCommand ==
    [][(\/ last_call'[1] = "move" /\ last_call'[2] \notin MOVE_TYPES
        \/ last_call'[1] = "turn" /\ last_call'[2] \notin TURN_TYPES)
         => UNCHANGED fields]_vars

\* A move with the token f was rejected on a game that goes on.
C18_Witness ==
    /\ last_call = <<"move", "f">>
    /\ result = Msg("invalid_move_type", <<"f">>, "")
    /\ ~game_over

(***************************************************************************)
(* C19: the snapshot of get_status exposes failure_reason and the scared   *)
(* set, so a caller can tell which terminal outcome occurred without       *)
(* reading the message.                                                    *)
(***************************************************************************)
C19_StatusTellsOutcome ==
    game_over
      => (/\ {"failure_reason", "scared_animals"} \subseteq DOMAIN get_status(Self)
          /\ get_status(Self)["failure_reason"] = failure_reason
          /\ get_status(Self)["scared_animals"] = scared_animals)

(***************************************************************************)
(* C20: once the cell of a target is in the scared set, until reset_game   *)
(* the cell stays there, the target's photographed flag never goes from    *)
(* false to true and no move reports animal_crash on that cell.            *)
(***************************************************************************)
C20_ScaredForGood ==
    [][\A c \in scared_animals :
         (last_call' # <<"reset_game">>)
           => (/\ c \in scared_animals'
               /\ animals_photographed'[AnimalName(Layout[c])]
                     => animals_photographed[AnimalName(Layout[c])]
               /\ ~(/\ last_call'[1] = "move"
                    /\ result'[1] = "crashed_into_an_animal"
                    /\ drone_pos' = c))]_vars

\* After a scare a move towards the empty cell of the target was tried.
C20_Witness ==
    /\ scared_animals # {}
    /\ last_call = <<"move", "forward">>
    /\ result = GameIsOver
    /\ failure_reason = "scared_animal"
    /\ \E c \in scared_animals :
          c = <<drone_pos[1] + DIRECTIONS[drone_facing][1],
                drone_pos[2] + DIRECTIONS[drone_facing][2]>>

\* The cells one unit step outside the grid.
JustOutside ==
    {<<c[1] + DIRECTIONS[d][1], c[2] + DIRECTIONS[d][2]>> :
        c \in Cells, d \in DOMAIN DIRECTIONS} \ Cells

(***************************************************************************)
(* C21: the drone position is inside the grid unless failure_reason is     *)
(* boundary_crash; it is inside the grid whenever the game is not over,    *)
(* and a position outside the grid is one unit step outside it.            *)
(***************************************************************************)
C21_PositionInGrid ==
    /\ ~InGrid(drone_pos) => failure_reason = "boundary_crash"
    /\ ~game_over => InGrid(drone_pos)
    /\ ~InGrid(drone_pos) => drone_pos \in JustOutside

\* A move has put the drone one step outside the grid.
C21_Witness ==
    /\ last_call[1] = "move"
    /\ drone_pos \in JustOutside
    /\ failure_reason = "boundary_crash"
    /\ budget < MaxReplaySteps

(***************************************************************************)
(* C22: before reset_game the grid changes only by a scare, which turns    *)
(* the cells of the targets around the new position into Empty: every      *)
(* other call (turn, take_picture, a successful move, a boundary, tree or  *)
(* animal crash, a rejected command) leaves every cell as it is, no tree   *)
(* is removed or added and no Empty cell becomes a tree or a target.       *)
(***************************************************************************)
C22_GridChangesOnlyByScare ==
    [][(last_call' # <<"reset_game">>)
         => (/\ \A c \in Cells :
                  grid'[c] # grid[c]
                    => (/\ grid[c] \in Animals
                        /\ grid'[c] = EMPTY
                        /\ c \in Around(drone_pos'))
             /\ grid' # grid
                  => (/\ ActiveMove(last_call'[2])
                      /\ failure_reason' = "scared_animal"
                      /\ result'[1] = "scared_an_animal_away")
             /\ (result'[1] # "scared_an_animal_away" \/ game_over)
                  => grid' = grid)]_vars

\* A scare has emptied the cell of a target and left every tree standing.
C22_Witness ==
    /\ failure_reason = "scared_animal"
    /\ \E c \in Cells : Layout[c] \in Animals /\ grid[c] = EMPTY
    /\ \A c \in Cells : (Layout[c] = TREE) <=> (grid[c] = TREE)
    /\ budget < MaxUnitSteps

(***************************************************************************)
(* C23: pictures_remaining is never negative and is at least 1 whenever    *)
(* the game is not over, so the branch of take_picture that answers "no    *)
(* pictures remaining" is never executed.                                  *)
(***************************************************************************)
C23_PicturesLeftWhileActive ==
    /\ pictures_remaining >= 0
    /\ ~game_over => pictures_remaining >= 1
    /\ message[1] # "no_pictures_remaining"
    /\ result[1] # "no_pictures_remaining"

\* The last picture was shot out of the grid; the game is over with no
\* picture left.
C23_Witness ==
    /\ last_call = <<"take_picture">>
    /\ pictures_remaining = 0
    /\ game_over
    /\ message = Msg("wasted_no_animal_in_range", <<5, 0>>, "no_pictures_left")
    /\ budget < MaxReplaySteps

(***************************************************************************)
(* C24: failure_reason is set only if game_over is true and game_won is    *)
(* false, and once it is set it keeps its value until reset_game.          *)
(***************************************************************************)
C24_FailureReason ==
    /\ [](failure_reason # None => (game_over /\ ~game_won))
    /\ [][(failure_reason # None /\ last_call' # <<"reset_game">>)
            => failure_reason' = failure_reason]_vars

\* The game ran out of pictures and a turn called after that left the
\* failure reason in place.
C24_Witness ==
    /\ failure_reason = "out_of_pictures"
    /\ game_over
    /\ ~game_won
    /\ last_call[1] = "turn"
    /\ result = GameIsOver

(***************************************************************************)
(* The poses a drone can hold while the game goes on.  What move and turn  *)
(* do on a game that is not over depends on the pose and the grid only,    *)
(* and the grid of such a game is the one of the constructor (a scare, the *)
(* only change of the grid, ends the game), so the game with a pose stands *)
(* for every game that goes on with the drone in that pose.                *)
(***************************************************************************)
Pose(self) == <<self.drone_pos, self.drone_facing>>

PoseGame(pose) ==
    [NewGame EXCEPT !.drone_pos = pose[1], !.drone_facing = pose[2]]

\* The calls of move and turn with the tokens the engine accepts.
Flights == {<<"move", move_type>> : move_type \in MOVE_TYPES}
               \cup {<<"turn", turn_direction>> : turn_direction \in TURN_TYPES}

\* The poses one call away, on a game that still goes on after the call.
Successors(pose) ==
    {Pose(after) : after \in {a \in {Call(PoseGame(pose), c) : c \in Flights} :
                                 ~a.game_over}}

RECURSIVE Explore(_, _)
Explore(seen, frontier) ==
    IF frontier = {} THEN seen
    ELSE LET found == UNION {Successors(pose) : pose \in frontier} \ seen
         IN  Explore(seen \cup found, found)

\* Every pose some sequence of commands leads to from a pose.
PosesFrom(pose) == Explore({pose}, {pose})

\* Every pose some sequence of commands leads to from the constructed game.
ReachablePoses == PosesFrom(Pose(NewGame))

\* The failure reasons a move can end with after some sequence of commands
\* that starts in a pose.
MoveOutcomes(pose) ==
    {move(PoseGame(p), move_type).failure_reason :
        p \in PosesFrom(pose), move_type \in MOVE_TYPES} \ {None}

ShootingPoses(animal, pose) ==
    {p \in PosesFrom(pose) :
        take_picture(PoseGame(p)).animals_photographed[AnimalName(animal)]}

(***************************************************************************)
(* C26: the constructed game is winnable: a sequence of move, turn and     *)
(* take_picture commands (the session) leads from it to game_won with at   *)
(* most 5 pictures, and each of the three targets has a shooting pose that *)
(* commands lead to and no tree blocks.                                    *)
(***************************************************************************)
C26_Winnable ==
    Fresh
      => (/\ LET end == PlayFrom(Self, 1, Len(Session))
             IN  /\ end.game_won
                 /\ end.pictures_taken <= PICTURES
                 /\ end.failure_reason = None
          /\ \A c \in 1 .. Len(Session) :
                Keys[Session[c]][1] \in {"move", "turn", "take_picture"}
          /\ \A animal \in Animals :
                ShootingPoses(animal, <<drone_pos, drone_facing>>) # {})

\* The last call of the session was made: the game is won with the fifth
\* picture, after 54 moves and 3 turns from the start cell.
C26_Witness ==
    /\ game_won
    /\ AllPhotographed
    /\ pictures_taken = 5
    /\ Len(movement_trail) = 54
    /\ movement_trail[1][1] = <<6, 6>>
    /\ Len(rotation_trail) = 3
    /\ last_call = <<"take_picture">>
    /\ budget < MaxReplaySteps

(***************************************************************************)
(* C27: whenever the game is not over the drone stands on an Empty cell of *)
(* the grid, no target lies in the 8 cells around it, the three targets    *)
(* are on the grid at their initial cells and the scared set is empty; the *)
(* same holds of every pose that commands lead to from the constructed     *)
(* game.                                                                   *)
(***************************************************************************)
C27_ActiveDroneKeepsClear ==
    /\ ~game_over
         => (/\ InGrid(drone_pos)
             /\ grid[drone_pos] = EMPTY
             /\ TargetsAround(drone_pos) = {}
             /\ grid[<<3, 3>>] = ZEBRA
             /\ grid[<<9, 9>>] = ELEPHANT
             /\ grid[<<2, 9>>] = ORYX
             /\ {c \in Cells : grid[c] \in Animals} = {<<3, 3>>, <<9, 9>>, <<2, 9>>}
             /\ scared_animals = {})
    /\ Fresh
         => \A pose \in PosesFrom(<<drone_pos, drone_facing>>) :
               /\ InGrid(pose[1])
               /\ grid[pose[1]] = EMPTY
               /\ TargetsAround(pose[1]) = {}

\* A move has brought the drone two cells from a target, as close as a
\* game that goes on allows.
C27_Witness ==
    /\ ~game_over
    /\ last_call[1] = "move"
    /\ result[1] = "moved"
    /\ \E c \in Cells :
          /\ grid[c] \in Animals
          /\ Abs(c[1] - drone_pos[1]) <= 2
          /\ Abs(c[2] - drone_pos[2]) <= 2
    /\ budget < MaxReplaySteps

\* The most turns taken between a move and the move that undoes it.
MaxTurns == 4

\* The relative direction that undoes a relative direction.
Opposite == [forward |-> "backward", backward |-> "forward",
             left |-> "right", right |-> "left"]

\* The game after k turns the same way.
RECURSIVE Turned(_, _, _)
Turned(self, turn_direction, k) ==
    IF k = 0 THEN self
    ELSE Turned(turn(self, turn_direction), turn_direction, k - 1)

\* The relative direction that, under a facing, goes against an absolute
\* direction.
Against(facing, absolute_dir) ==
    CHOOSE move_type \in MOVE_TYPES :
        Resolved(facing, move_type) = Resolved(absolute_dir, "backward")

(***************************************************************************)
(* C28: a successful move can be undone: the opposite move (forward and    *)
(* backward, left and right exchanged) issued right after it succeeds and  *)
(* puts the drone back on the cell it left with the facing it had; after   *)
(* any number of turns in between, the move against the absolute           *)
(* direction travelled does the same.                                      *)
(***************************************************************************)
C28_MoveUndone ==
    [][\A move_type \in MOVE_TYPES :
         (ActiveMove(move_type) /\ result'[1] = "moved")
           => (/\ LET back == move(Self', Opposite[move_type])
                  IN  /\ back.result[1] = "moved"
                      /\ ~back.game_over
                      /\ back.drone_pos = drone_pos
                      /\ back.drone_facing = drone_facing
               /\ \A turn_direction \in TURN_TYPES, k \in 0..MaxTurns :
                     LET turned == Turned(Self', turn_direction, k)
                         back == move(turned,
                                      Against(turned.drone_facing,
                                              Resolved(drone_facing, move_type)))
                     IN  /\ back.result[1] = "moved"
                         /\ ~back.game_over
                         /\ back.drone_pos = drone_pos
                         /\ back.drone_facing = turned.drone_facing)]_vars

\* A move to the left was followed by a move to the right that put the
\* drone back on the cell it had left.
C28_Witness ==
    /\ last_call = <<"move", "right">>
    /\ result[1] = "moved"
    /\ budget = MaxReplaySteps - 2
    /\ Len(movement_trail) >= 2
    /\ LET n == Len(movement_trail)
       IN  /\ movement_trail[n] = <<movement_trail[n - 1][2], movement_trail[n - 1][1]>>
           /\ movement_trail[n][2] = drone_pos
           /\ movement_trail[n][1] # drone_pos

\* The cell a list of <<distance, compass word>> parts leads to from the
\* drone, each word read as the vector the drone moves by when it faces
\* that way and moves forward.
RECURSIVE Located(_, _)
Located(cell, parts) ==
    IF parts = << >> THEN cell
    ELSE Located(<<cell[1] + parts[1][1] * DIRECTIONS[parts[1][2]][1],
                   cell[2] + parts[1][1] * DIRECTIONS[parts[1][2]][2]>>,
                 Tail(parts))

(***************************************************************************)
(* C29: the sensor summary uses the compass of movement: an object it      *)
(* reports k North (South, East, West) of the drone is on the cell at the  *)
(* drone position plus k times DIRECTIONS[North] (the other vectors), a    *)
(* scared location it reports is in the scared set at that cell, and a     *)
(* boundary it reports is outside the grid at that cell.                   *)
(***************************************************************************)
C29_SensorCompass ==
    \A i \in DOMAIN get_sensor_summary(Self) :
        LET what == get_sensor_summary(Self)[i][1]
            cell == Located(drone_pos, get_sensor_summary(Self)[i][2])
        IN  CASE what = <<"scared animal location">> -> cell \in scared_animals
              [] what \in {<<"tree">>, <<"zebra">>, <<"elephant">>, <<"oryx">>}
                   -> /\ InGrid(cell)
                      /\ grid[cell] \in DOMAIN object_names
                      /\ <<object_names[grid[cell]]>> = what
              [] OTHER -> ~InGrid(cell)

(***************************************************************************)
(* The agents that issue commands to the engine.  A response of the        *)
(* language model is the argument of its first move( call, the argument of *)
(* its first turn( call (None when it has none) and the set of the         *)
(* keywords that occur in it.                                              *)
(***************************************************************************)
\* The arguments the system prompt of DroneAgent tells the model to write.
PromptedMoves == {"f", "b", "l", "r"}

Keywords == {"take_picture()", "take picture", "forward", "ahead",
             "backward", "back", "left", "right", "turn", "picture", "photo"}

Responses ==
    [move_call : PromptedMoves \cup {"forward", None},
     turn_call : {"left", "right", None},
     words : SUBSET Keywords]

\* DroneAgent._parse_action_from_llm_response: <<action_type, parameter>>.
parse_action_from_llm_response(response) ==
    CASE response.move_call # None -> <<"move", response.move_call>>
      [] OTHER ->
    CASE response.turn_call # None -> <<"turn", response.turn_call>>
      [] OTHER ->
    CASE {"take_picture()", "take picture"} \cap response.words # {}
           -> <<"take_picture", None>>
      [] OTHER ->
    CASE {"forward", "ahead"} \cap response.words # {} -> <<"move", "f">>
      [] OTHER ->
    CASE {"backward", "back"} \cap response.words # {} -> <<"move", "b">>
      [] OTHER ->
    CASE {"left", "turn"} \subseteq response.words -> <<"turn", "left">>
      [] OTHER ->
    CASE {"right", "turn"} \subseteq response.words -> <<"turn", "right">>
      [] OTHER ->
    CASE "left" \in response.words -> <<"move", "l">>
      [] OTHER ->
    CASE "right" \in response.words -> <<"move", "r">>
      [] OTHER ->
    CASE {"picture", "photo"} \cap response.words # {} -> <<"take_picture", None>>
      [] OTHER -> <<"unknown", None>>

\* The enum of the direction parameter of the tool move_drone;
\* DroneAgent._execute_tool hands the value to move as it is.
move_drone_directions ==
    {"forward", "f", "left", "l", "right", "r", "back", "b"}

\* Every argument an agent can call move with.
AgentMoveTokens ==
    {parse_action_from_llm_response(response)[2] :
        response \in {r \in Responses :
                         parse_action_from_llm_response(r)[1] = "move"}}
        \cup move_drone_directions

(***************************************************************************)
(* C30: every direction an agent can pass to the engine is one the engine  *)
(* accepts: each token the parser produces for a move and each value of    *)
(* the enum of move_drone is in forward, backward, left, right, so a move  *)
(* issued by an agent is never rejected as an invalid move_type.           *)
(***************************************************************************)
C30_AgentMovesAccepted ==
    [][(last_call'[1] = "move" /\ last_call'[2] \in AgentMoveTokens)
         => (/\ last_call'[2] \in MOVE_TYPES
             /\ result'[1] # "invalid_move_type")]_vars

====
